---- MODULE Spec2Model ----
(***************************************************************************)
(* ImageTextExtractor: OCR -> CSV export -> AI correction.                 *)
(*                                                                         *)
(* Texts are sequences of characters over a three letter alphabet: a       *)
(* printable character, a blank and the line feed.  File names are         *)
(* sequences of pieces, a piece being a stem or a dot-suffix ("a" ".png"). *)
(* A path is the pair <<directory, name>>.  The output directory is the    *)
(* function `files` from the paths that exist to their contents.           *)
(***************************************************************************)
EXTENDS Integers, Sequences, FiniteSets, TLC

(* ------------------------------ bounds --------------------------------- *)

\* longest text handed to the exporter when one text is exported once
MaxLen == 5

\* longest text of an export when exports follow one another on the same files
MaxFsLen == 3

\* the wall clock reads 0..MaxClock
MaxClock == 0

\* most records in a caller's structured list, most fields in a record
MaxRecords == 2
MaxFields == 2

\* longest raw output of the OCR engine, longest text typed for manual correction,
\* longest reply of the remote model
MaxOcrLen == 1
MaxManualLen == 2
MaxReplyLen == 1

\* ------------------------------------------------------------------------
\* Characters and Python's str methods
\* ------------------------------------------------------------------------

LF == "\n"

Chars == {"a", " ", LF}

\* str.isspace() restricted to the alphabet
Whitespace == {" ", LF}

RECURSIVE SeqsUpTo(_, _)
SeqsUpTo(S, n) ==
    IF n = 0 THEN {<<>>}
    ELSE LET shorter == SeqsUpTo(S, n - 1)
         IN  shorter \cup {Append(s, c) : s \in {t \in shorter : Len(t) = n - 1}, c \in S}

\* index of the first element of s satisfying "is in set T", Len(s)+1 when none
RECURSIVE FirstIn(_, _, _)
FirstIn(s, T, i) ==
    IF i > Len(s) THEN Len(s) + 1
    ELSE IF s[i] \in T THEN i
    ELSE FirstIn(s, T, i + 1)

Tail_(s, i) == SubSeq(s, i, Len(s))

\* text.split('\n')
RECURSIVE SplitLF(_)
SplitLF(text) ==
    LET i == FirstIn(text, {LF}, 1)
    IN  IF i > Len(text) THEN <<text>>
        ELSE <<SubSeq(text, 1, i - 1)>> \o SplitLF(Tail_(text, i + 1))

\* str.lstrip(), str.rstrip(), str.strip()
RECURSIVE LStrip(_)
LStrip(s) ==
    IF s # <<>> /\ s[1] \in Whitespace THEN LStrip(Tail(s)) ELSE s

RECURSIVE RStrip(_)
RStrip(s) ==
    IF s # <<>> /\ s[Len(s)] \in Whitespace THEN RStrip(SubSeq(s, 1, Len(s) - 1)) ELSE s

Strip(s) == RStrip(LStrip(s))

\* str.split() without arguments: the maximal runs of non-whitespace
RECURSIVE SplitWs(_)
SplitWs(s) ==
    LET t == LStrip(s)
        j == FirstIn(t, Whitespace, 1)
    IN  IF t = <<>> THEN <<>>
        ELSE <<SubSeq(t, 1, j - 1)>> \o SplitWs(Tail_(t, j))

\* [line.strip() for line in text.split('\n') if line]: a line of blanks is kept
RECURSIVE StripNonBlankTestingRaw(_)
StripNonBlankTestingRaw(segs) ==
    IF segs = <<>> THEN <<>>
    ELSE IF Head(segs) # <<>>
         THEN <<Strip(Head(segs))>> \o StripNonBlankTestingRaw(Tail(segs))
         ELSE StripNonBlankTestingRaw(Tail(segs))

\* [line.strip() for line in text.split('\n') if line.strip()]
RECURSIVE StripNonBlank(_)
StripNonBlank(segs) ==
    IF segs = <<>> THEN <<>>
    ELSE IF Strip(Head(segs)) # <<>>
         THEN <<Strip(Head(segs))>> \o StripNonBlank(Tail(segs))
         ELSE StripNonBlank(Tail(segs))

NonBlankLines(text) == StripNonBlank(SplitLF(text))

\* ------------------------------------------------------------------------
\* File names, paths, the clock
\* ------------------------------------------------------------------------

\* the dot-suffixes a name can end with
DotSuffixes == {".png", ".jpg", ".PNG", ".csv", ".txt"}

\* os.path.splitext(name): <<root, ext>>; a leading dot-suffix is no extension
Splitext(name) ==
    IF Len(name) > 1 /\ name[Len(name)] \in DotSuffixes
    THEN <<SubSeq(name, 1, Len(name) - 1), <<name[Len(name)]>>>>
    ELSE <<name, <<>>>>

\* os.path.join(dir, name) and os.path.basename(path)
PathJoin(dir, name) == <<dir, name>>
Basename(path) == path[2]

\* datetime.now().strftime('%Y-%m-%d %H:%M:%S'): the clock reading as a string
Strftime(t) == <<ToString(t)>>

\* datetime.now() reads the wall clock, which is free to jump either way: n
\* successive readings are any n values of 0..MaxClock
Readings(n) == [1..n -> 0..MaxClock]

\* ------------------------------------------------------------------------
\* Python dicts (insertion ordered) and pandas data frames
\* ------------------------------------------------------------------------

\* a dict is the sequence of its <<key, value>> items in insertion order
HasKey(d, k) == \E i \in 1..Len(d) : d[i][1] = k
DictGet(d, k) == d[CHOOSE i \in 1..Len(d) : d[i][1] = k][2]
\* d[k] = v
DictSet(d, k, v) ==
    IF HasKey(d, k)
    THEN [i \in 1..Len(d) |-> IF d[i][1] = k THEN <<k, v>> ELSE d[i]]
    ELSE Append(d, <<k, v>>)

\* the value pandas stores for a key a record lacks
NaN == "NaN"

\* the keys of the records of `data` in order of first appearance
RECURSIVE AddKeys(_, _)
AddKeys(cols, d) ==
    IF d = <<>> THEN cols
    ELSE AddKeys(IF \E j \in 1..Len(cols) : cols[j] = d[1][1] THEN cols
                 ELSE Append(cols, d[1][1]), Tail(d))

RECURSIVE ColumnsOf(_, _)
ColumnsOf(cols, data) ==
    IF data = <<>> THEN cols ELSE ColumnsOf(AddKeys(cols, Head(data)), Tail(data))

\* pd.DataFrame(list of dicts): no record, no column
FrameOf(cols, data) ==
    [columns |-> cols,
     rows    |-> [i \in 1..Len(data) |->
                    [j \in 1..Len(cols) |->
                        IF HasKey(data[i], cols[j]) THEN DictGet(data[i], cols[j])
                        ELSE NaN]]]

DataFrame(data) == FrameOf(ColumnsOf(<<>>, data), data)

\* pd.DataFrame(dict of one-element lists): one row, the keys as columns
DataFrameOfColumns(d) ==
    [columns |-> [j \in 1..Len(d) |-> d[j][1]],
     rows    |-> << [j \in 1..Len(d) |-> d[j][2][1]] >>]

\* ------------------------------------------------------------------------
\* The output directory
\* ------------------------------------------------------------------------

OutputDir == "output"

\* open(path, 'a'): the rows written follow the rows the file holds
WriteFileAppending(fs, path, content) ==
    [p \in DOMAIN fs \cup {path} |->
        IF p # path THEN fs[p]
        ELSE IF path \in DOMAIN fs /\ fs[path].kind = "csv" /\ content.kind = "csv"
             THEN [content EXCEPT !.rows = fs[path].rows \o content.rows]
             ELSE content]

\* open(path, 'w') followed by the write: whatever the path held is replaced
WriteFile(fs, path, content) ==
    [p \in DOMAIN fs \cup {path} |-> IF p = path THEN content ELSE fs[p]]

\* what a file holds when the write fails after open() has truncated it
Partial == [kind |-> "partial", header |-> <<>>, rows |-> <<>>]

\* what the operating system does with a write
IoOutcomes == {"ok", "open_error", "write_error"}

\* df.to_csv(path, index=False, encoding='utf-8-sig', sep=';'): the header line,
\* then one line per row.  A cell keeps the value whose text to_csv writes.
\* io is what the operating system does: "ok", "open_error" (open() raises) or
\* "write_error" (the write raises after open() has truncated the file).
\* The result is [files, error, ret]: the directory afterwards, the exception
\* raised if any, and the path the caller returns.
ToCsv(fs, path, df, io) ==
    CASE io = "ok" ->
           [files |-> WriteFile(fs, path, [kind |-> "csv", header |-> df.columns,
                                           rows |-> df.rows]),
            error |-> "none", ret |-> path]
      [] io = "open_error"  -> [files |-> fs, error |-> "OSError", ret |-> path]
      [] io = "write_error" -> [files |-> WriteFile(fs, path, Partial), error |-> "OSError",
                                ret |-> path]

\* ------------------------------------------------------------------------
\* CSVConverter
\* ------------------------------------------------------------------------

\* the data list with enumerate(lines): the index starts at 0
TextRowsFromZero(text, image_name, stamps) ==
    LET lines == NonBlankLines(text)
    IN  [i \in 1..Len(lines) |->
            << <<"Linha", i - 1>>,
               <<"Conteudo", lines[i]>>,
               <<"Palavras", Len(SplitWs(lines[i]))>>,
               <<"Caracteres", Len(lines[i])>>,
               <<"Imagem_Origem", image_name>>,
               <<"Data_Extracao", Strftime(stamps[i])>> >>]

\* the data list built by convert_text_to_csv; stamps[i] is the clock reading of row i
TextRows(text, image_name, stamps) ==
    LET lines == NonBlankLines(text)
    IN  [i \in 1..Len(lines) |->
            << <<"Linha", i>>,
               <<"Conteudo", lines[i]>>,
               <<"Palavras", Len(SplitWs(lines[i]))>>,
               <<"Caracteres", Len(lines[i])>>,
               <<"Imagem_Origem", image_name>>,
               <<"Data_Extracao", Strftime(stamps[i])>> >>]

\* CSVConverter.convert_text_to_csv: [files, error, ret]
ConvertTextToCsv(fs, output_dir, text, filename, image_name, stamps, io) ==
    LET df == DataFrame(TextRows(text, image_name, stamps))
        output_path == PathJoin(output_dir, filename)
    IN  ToCsv(fs, output_path, df, io)

\* create_summary_csv with words = text.split(' '): one more than the blanks
SummaryDataSplitOnBlank(image_name, text, output_file, stamp) ==
    LET lines == NonBlankLines(text)
    IN  << <<"Imagem", <<image_name>>>>,
           <<"Total_Linhas", <<Len(lines)>>>>,
           <<"Total_Palavras", <<Cardinality({i \in 1..Len(text) : text[i] = " "}) + 1>>>>,
           <<"Total_Caracteres", <<Len(text)>>>>,
           <<"Arquivo_CSV_Gerado", <<Basename(output_file)>>>>,
           <<"Data_Processamento", <<Strftime(stamp)>>>> >>

\* the summary_data dict built by create_summary_csv
SummaryData(image_name, text, output_file, stamp) ==
    LET lines == NonBlankLines(text)
        words == SplitWs(text)
    IN  << <<"Imagem", <<image_name>>>>,
           <<"Total_Linhas", <<Len(lines)>>>>,
           <<"Total_Palavras", <<Len(words)>>>>,
           <<"Total_Caracteres", <<Len(text)>>>>,
           <<"Arquivo_CSV_Gerado", <<Basename(output_file)>>>>,
           <<"Data_Processamento", <<Strftime(stamp)>>>> >>

\* f"resumo_{os.path.splitext(image_name)[0]}.csv"
SummaryName(image_name) == <<"resumo_">> \o Splitext(image_name)[1] \o <<".csv">>

\* CSVConverter.create_summary_csv: [files, error, ret]
CreateSummaryCsv(fs, output_dir, image_name, text, output_file, stamp, io) ==
    LET df_summary == DataFrameOfColumns(SummaryData(image_name, text, output_file, stamp))
        summary_path == PathJoin(output_dir, SummaryName(image_name))
    IN  ToCsv(fs, summary_path, df_summary, io)

\* the metadata loop of convert_structured_data_to_csv: it assigns into the
\* caller's own records; stamps[i] is the clock reading for record i
AddMetadata(structured_data, image_name, stamps) ==
    [i \in 1..Len(structured_data) |->
        DictSet(DictSet(structured_data[i], "imagem_origem", image_name),
                "data_extracao", Strftime(stamps[i]))]

\* CSVConverter.convert_structured_data_to_csv: [csv, structured_data], csv being
\* [files, error, ret] and structured_data the caller's list as the call leaves it
ConvertStructuredDataToCsv(fs, output_dir, structured_data, filename, image_name, stamps, io) ==
    LET items == AddMetadata(structured_data, image_name, stamps)
        df == DataFrame(items)
        output_path == PathJoin(output_dir, filename)
    IN  [csv |-> ToCsv(fs, output_path, df, io), structured_data |-> items]

\* ------------------------------------------------------------------------
\* State
\* ------------------------------------------------------------------------

VARIABLES
    files,      \* the output directory: path -> content, for the paths that exist
    images,     \* the names os.listdir("img") returns
    api_key,    \* what os.getenv("API_KEY") returns after load_dotenv()
    pc,         \* the input() call the interactive program is blocked in
    console,    \* what the latest handler printed, in order
    last,       \* the latest workflow call: its arguments, outcome and result
    app,        \* the Application (and its PythonAI client) built last, or NoApp
    ai_log,     \* the requests the latest handler sent to the remote model, in order
    choice,     \* what the user typed at the menu the latest handler read, "" if none
    call        \* the latest direct call of a CSVConverter method, its arguments and result

envVars  == <<files, images, api_key>>
progVars == <<pc, console, last, app, ai_log, choice>>
vars     == <<files, images, api_key, pc, console, last, app, ai_log, choice, call>>

\* the files of the images directory: two images of the same stem, and a note
ImgFiles == {<<"a", ".png">>, <<"a", ".jpg">>, <<"notes", ".txt">>}

NoApp  == [built |-> FALSE, api_key |-> "absent"]
NoRemote == [ok |-> FALSE, text |-> <<>>]
NoLast == [op |-> "none", arg |-> <<>>, text |-> <<>>, ret |-> FALSE,
           error |-> "none", reply |-> <<>>, remote |-> NoRemote]
NoCall == [op |-> "none", text |-> <<>>, filename |-> <<>>, image_name |-> <<>>,
           ret |-> <<>>, error |-> "none", given |-> <<>>, structured_data |-> <<>>,
           df |-> [columns |-> <<>>, rows |-> <<>>], before |-> -1]

\* the program before main() runs, in an environment without credential
ProgramStart ==
    /\ pc = "main_menu"
    /\ console = <<>>
    /\ last = NoLast
    /\ app = NoApp
    /\ ai_log = <<>>
    /\ choice = ""

\* f"texto_{os.path.splitext(image_name)[1]}.csv": named after the extension
CsvNameOfExtension(image_name) == <<"texto_">> \o Splitext(image_name)[2] \o <<".csv">>

\* f"texto_{os.path.splitext(image_name)[0]}.csv"
CsvName(image_name) == <<"texto_">> \o Splitext(image_name)[1] \o <<".csv">>

\* ------------------------------------------------------------------------
\* One text exported once: convert_text_to_csv, then create_summary_csv on the
\* same text, the way process_image pairs them
\* ------------------------------------------------------------------------

Texts == SeqsUpTo(Chars, MaxLen)

\* str.lower() of a dot-suffix
Lower(piece) == IF piece = ".PNG" THEN ".png" ELSE piece

\* supported_formats of _get_available_images
SupportedFormats == {".jpg", ".jpeg", ".png", ".bmp", ".tiff", ".gif"}

\* file.lower().endswith(supported_formats)
IsImage(name) == Lower(name[Len(name)]) \in SupportedFormats

Images == {n \in ImgFiles : IsImage(n)}

InitExport ==
    /\ files = << >>
    /\ images = ImgFiles
    /\ api_key = "absent"
    /\ ProgramStart
    /\ \E text \in Texts : call = [NoCall EXCEPT !.text = text]

ExportText ==
    /\ call.op = "none"
    /\ \E image_name \in Images :
       \E stamps \in Readings(Len(NonBlankLines(call.text))) :
       \E r \in {ConvertTextToCsv(files, OutputDir, call.text, CsvName(image_name),
                                  image_name, stamps, "ok")} :
              /\ files' = r.files
              /\ call' = [call EXCEPT !.op = "convert_text_to_csv",
                                      !.filename = CsvName(image_name),
                                      !.image_name = image_name,
                                      !.ret = r.ret, !.error = r.error]
    /\ UNCHANGED <<images, api_key, progVars>>

ExportSummary ==
    /\ call.op = "convert_text_to_csv"
    /\ \E stamp \in 0..MaxClock :
       \E r \in {CreateSummaryCsv(files, OutputDir, call.image_name, call.text,
                                  call.ret, stamp, "ok")} :
              /\ files' = r.files
              /\ call' = [call EXCEPT !.op = "create_summary_csv", !.error = r.error]
    /\ UNCHANGED <<images, api_key, progVars>>

NextExport == ExportText \/ ExportSummary

SpecExport == InitExport /\ [][NextExport]_vars

\* ------------------------------------------------------------------------
\* Reading the generated files back
\* ------------------------------------------------------------------------

\* the cells of the named column, top to bottom
ColumnOf(file, name) ==
    [i \in 1..Len(file.rows) |->
        file.rows[i][CHOOSE j \in 1..Len(file.header) : file.header[j] = name]]

RECURSIVE SumSeq(_)
SumSeq(s) == IF s = <<>> THEN 0 ELSE Head(s) + SumSeq(Tail(s))

\* the columns of a tabular file, in order
TabularHeader ==
    <<"Linha", "Conteudo", "Palavras", "Caracteres", "Imagem_Origem", "Data_Extracao">>

\* position i starts a non-blank line: a non-blank character with only blanks
\* between it and the previous line feed
StartsLine(text, i) ==
    /\ text[i] \notin Whitespace
    /\ \A j \in 1..(i - 1) :
          (\A k \in j..(i - 1) : text[k] # LF) => text[j] \in Whitespace

NumNonBlankLines(text) == Cardinality({i \in 1..Len(text) : StartsLine(text, i)})

TabularPath == PathJoin(OutputDir, CsvName(call.image_name))
SummaryPath == PathJoin(OutputDir, SummaryName(call.image_name))

\* C1: whatever text convert_text_to_csv is given, the generated file has as many
\* data rows as the text has non-blank lines, and for an all-blank text it has no
\* data row and still the header row of the six columns.
C1_RowsAndHeader ==
    call.op = "convert_text_to_csv" =>
        /\ files[call.ret].kind = "csv"
        /\ Len(files[call.ret].rows) = NumNonBlankLines(call.text)
        /\ files[call.ret].header = TabularHeader

\* C2: when both files are generated from the same text, the summary's
\* Total_Palavras equals the sum of Palavras over the rows of the tabular file.
C2_WordTotals ==
    call.op = "create_summary_csv" =>
        ColumnOf(files[SummaryPath], "Total_Palavras")[1]
            = SumSeq(ColumnOf(files[TabularPath], "Palavras"))

\* a pair generated from a text of two lines, one of them of two words
C2_Witness ==
    /\ call.op = "create_summary_csv"
    /\ Len(files[TabularPath].rows) = 2
    /\ ColumnOf(files[SummaryPath], "Total_Palavras")[1] = 3

\* ------------------------------------------------------------------------
\* Exports following one another on the same files
\* ------------------------------------------------------------------------

\* the texts exported: lines of letters
FsTexts == SeqsUpTo({"a", LF}, MaxFsLen)

\* the image the exports are made for
FsImage == <<"a", ".png">>

\* the number of rows the path holds, -1 when no file is there
RowsAt(fs, path) == IF path \in DOMAIN fs THEN Len(fs[path].rows) ELSE -1

InitOverwrite ==
    /\ files = << >>
    /\ images = ImgFiles
    /\ api_key = "absent"
    /\ ProgramStart
    /\ call = NoCall

CallConvertTextToCsv ==
    /\ \E text \in FsTexts, image_name \in {FsImage} :
       \E stamps \in Readings(Len(NonBlankLines(text))) :
       \E r \in {ConvertTextToCsv(files, OutputDir, text, CsvName(image_name),
                                  image_name, stamps, "ok")} :
              /\ files' = r.files
              /\ call' = [NoCall EXCEPT !.op = "convert_text_to_csv",
                                        !.ret = r.ret, !.error = r.error,
                                        !.df = DataFrame(TextRows(text, image_name, stamps)),
                                        !.before = RowsAt(files, r.ret)]
    /\ UNCHANGED <<images, api_key, progVars>>

CallCreateSummaryCsv ==
    /\ \E text \in FsTexts, image_name \in {FsImage}, stamp \in 0..MaxClock :
       \E output_file \in {PathJoin(OutputDir, CsvName(image_name))} :
       \E r \in {CreateSummaryCsv(files, OutputDir, image_name, text, output_file, stamp, "ok")} :
              /\ files' = r.files
              /\ call' = [NoCall EXCEPT !.op = "create_summary_csv",
                                        !.ret = r.ret, !.error = r.error,
                                        !.df = DataFrameOfColumns(
                                                  SummaryData(image_name, text, output_file, stamp)),
                                        !.before = RowsAt(files, r.ret)]
    /\ UNCHANGED <<images, api_key, progVars>>

NextOverwrite == CallConvertTextToCsv \/ CallCreateSummaryCsv

SpecOverwrite == InitOverwrite /\ [][NextOverwrite]_vars

\* C3: after any sequence of exports to one target, the file holds exactly the
\* header and rows of the latest export: nothing of what it held before remains.
C3_LatestExportOnly ==
    (call.op # "none" /\ call.error = "none") =>
        /\ files[call.ret].header = call.df.columns
        /\ Len(files[call.ret].rows) = Len(call.df.rows)
        /\ files[call.ret].rows = call.df.rows

\* an export of one row over a file that held two, and a summary over a tabular file
C3_Witness ==
    /\ call.op = "convert_text_to_csv"
    /\ call.error = "none"
    /\ call.before = 2
    /\ Len(call.df.rows) = 1

\* ------------------------------------------------------------------------
\* One structured list exported once
\* ------------------------------------------------------------------------

\* the field names a caller's record may carry, and the value it gives them
StructKeys == {"conteudo", "imagem_origem", "data_extracao"}
CallerValue == <<"x">>

\* the caller's records: up to MaxFields distinct keys, in any order
CallerRecords ==
    {[i \in 1..Len(ks) |-> <<ks[i], CallerValue>>] :
        ks \in {k \in SeqsUpTo(StructKeys, MaxFields) :
                   \A i, j \in 1..Len(k) : i # j => k[i] # k[j]}}

InitStructured ==
    /\ files = << >>
    /\ images = ImgFiles
    /\ api_key = "absent"
    /\ ProgramStart
    /\ \E data \in SeqsUpTo(CallerRecords, MaxRecords) :
          call = [NoCall EXCEPT !.given = data, !.structured_data = data]

CallConvertStructuredDataToCsv ==
    /\ call.op = "none"
    /\ \E image_name \in Images, stamps \in Readings(Len(call.given)) :
       \E r \in {ConvertStructuredDataToCsv(files, OutputDir, call.given, CsvName(image_name),
                                            image_name, stamps, "ok")} :
              /\ files' = r.csv.files
              /\ call' = [call EXCEPT !.op = "convert_structured_data_to_csv",
                                      !.filename = CsvName(image_name),
                                      !.image_name = image_name,
                                      !.ret = r.csv.ret, !.error = r.csv.error,
                                      !.structured_data = r.structured_data]
    /\ UNCHANGED <<images, api_key, progVars>>

NextStructured == CallConvertStructuredDataToCsv

SpecStructured == InitStructured /\ [][NextStructured]_vars

\* C10: convert_structured_data_to_csv leaves every field the caller supplied as
\* it was, in the exported row and in the caller's record, also in a record that
\* already has a field named like a metadata field.
C10_CallerFieldsKept ==
    call.op = "convert_structured_data_to_csv" =>
        \A i \in 1..Len(call.given) : \A f \in 1..Len(call.given[i]) :
            LET key == call.given[i][f][1]
                value == call.given[i][f][2]
            IN  /\ ColumnOf(files[call.ret], key)[i] = value
                /\ DictGet(call.structured_data[i], key) = value

\* ------------------------------------------------------------------------
\* OCRProcessor.extract_text and ImageTextExtractor.process_image
\* ------------------------------------------------------------------------

\* what preprocessing and the OCR engine do with an image: they yield raw text,
\* or the image does not load, or the engine cannot run
OcrOutcomes ==
    {[kind |-> "text", raw |-> t] : t \in SeqsUpTo({"a", LF}, MaxOcrLen)}
        \cup {[kind |-> "image_load", raw |-> <<>>], [kind |-> "ocr_engine", raw |-> <<>>]}

\* OCRProcessor.extract_text: text.strip(), or the engine's error wrapped in Exception
ExtractText(ocr) ==
    IF ocr.kind = "text" THEN [error |-> "none", ret |-> Strip(ocr.raw)]
    ELSE [error |-> ocr.kind, ret |-> <<>>]

\* process_image with the try block left bare: an exception leaves the method
ProcessImageUncaught(fs, output_dir, image_name, ocr, stamps, io1, io2) ==
    LET x == ExtractText(ocr)
        out(f, ret, msgs, e) ==
            [files |-> f, ret |-> ret, console |-> <<"processing">> \o msgs, text |-> x.ret,
             error |-> e, raised |-> e]
    IN  IF x.error # "none" THEN out(fs, FALSE, <<>>, x.error)
        ELSE IF Strip(x.ret) = <<>> THEN out(fs, FALSE, <<"no_text">>, "none")
        ELSE LET c1 == ConvertTextToCsv(fs, output_dir, x.ret, CsvName(image_name),
                                        image_name, SubSeq(stamps, 1, Len(stamps) - 1), io1)
             IN  IF c1.error # "none" THEN out(c1.files, FALSE, <<"extracted">>, "export_write")
                 ELSE LET c2 == CreateSummaryCsv(c1.files, output_dir, image_name, x.ret,
                                                 c1.ret, stamps[Len(stamps)], io2)
                      IN  IF c2.error # "none"
                          THEN out(c2.files, FALSE, <<"extracted">>, "export_write")
                          ELSE out(c2.files, TRUE, <<"extracted", "done">>, "none")

\* process_image without the test of the extracted text: a blank text is exported
ProcessImageNoBlankTest(fs, output_dir, image_name, ocr, stamps, io1, io2) ==
    LET x == ExtractText(ocr)
        out(f, ret, msgs, e) ==
            [files |-> f, ret |-> ret, console |-> <<"processing">> \o msgs, text |-> x.ret,
             error |-> e, raised |-> "none"]
    IN  IF x.error # "none" THEN out(fs, FALSE, <<"error_processing">>, x.error)
        ELSE LET c1 == ConvertTextToCsv(fs, output_dir, x.ret, CsvName(image_name),
                                        image_name, SubSeq(stamps, 1, Len(stamps) - 1), io1)
                 c2 == CreateSummaryCsv(c1.files, output_dir, image_name, x.ret,
                                        c1.ret, stamps[Len(stamps)], io2)
             IN  IF c1.error # "none"
                 THEN out(c1.files, FALSE, <<"extracted", "error_processing">>, "export_write")
                 ELSE IF c2.error # "none"
                 THEN out(c2.files, FALSE, <<"extracted", "error_processing">>, "export_write")
                 ELSE out(c2.files, TRUE, <<"extracted", "done">>, "none")

\* ImageTextExtractor.process_image.  ocr, io1, io2 and stamps are what the engine,
\* the two writes and the clock do; stamps has one reading per row and one for the
\* summary.  The result is [files, ret, console, text, error, raised]: error is the
\* exception the try block raised, raised the exception that leaves the method.
ProcessImage(fs, output_dir, image_name, ocr, stamps, io1, io2) ==
    LET x == ExtractText(ocr)
        out(f, ret, msgs, e) ==
            [files |-> f, ret |-> ret, console |-> <<"processing">> \o msgs, text |-> x.ret,
             error |-> e, raised |-> "none"]
    IN  IF x.error # "none" THEN out(fs, FALSE, <<"error_processing">>, x.error)
        ELSE IF Strip(x.ret) = <<>> THEN out(fs, FALSE, <<"no_text">>, "none")
        ELSE LET c1 == ConvertTextToCsv(fs, output_dir, x.ret, CsvName(image_name),
                                        image_name, SubSeq(stamps, 1, Len(stamps) - 1), io1)
                 c2 == CreateSummaryCsv(c1.files, output_dir, image_name, x.ret,
                                        c1.ret, stamps[Len(stamps)], io2)
             IN  IF c1.error # "none"
                 THEN out(c1.files, FALSE, <<"extracted", "error_processing">>, "export_write")
                 ELSE IF c2.error # "none"
                 THEN out(c2.files, FALSE, <<"extracted", "error_processing">>, "export_write")
                 ELSE out(c2.files, TRUE, <<"extracted", "done">>, "none")

\* ------------------------------------------------------------------------
\* PythonAI
\* ------------------------------------------------------------------------

\* the f-string of _build_correction_prompt before and after {text}
\* (one string per line of the template, written without diacritics)
PromptHead ==
    <<LF, "Por favor, corrija e formate o texto a seguir que foi extraido por OCR de uma imagem.",
      LF, LF, "Problemas comuns a corrigir:", LF,
      "- Palavras grudadas", LF, "- Caracteres mal reconhecidos", LF,
      "- Falta de espacamento adequado", LF, "- Pontuacao incorreta", LF,
      "- Erros ortograficos e gramaticais", LF, LF,
      "Mantenha o sentido original do texto, mas torne-o legivel e bem formatado.",
      LF, LF, "TEXTO A CORRIGIR:", LF>>
PromptTail == <<LF, LF, "TEXTO CORRIGIDO:", LF>>

\* a prompt built from the trimmed text
BuildCorrectionPromptStripped(text) == PromptHead \o Strip(text) \o PromptTail

\* PythonAI._build_correction_prompt
BuildCorrectionPrompt(text) == PromptHead \o text \o PromptTail

\* what the remote model does with a request: it answers with a text, or fails
RemoteOutcomes ==
    {[ok |-> TRUE, text |-> t] : t \in SeqsUpTo({"H"}, MaxReplyLen)}
        \cup {[ok |-> FALSE, text |-> <<>>]}

Model == "gemini-2.0-flash-exp"

\* correct_text sending the request again when the first one fails
CorrectTextRetrying(text, remote) ==
    LET request == [model |-> Model, contents |-> BuildCorrectionPrompt(text)]
    IN  IF remote.ok THEN [requests |-> <<request>>, error |-> "none", ret |-> remote.text]
        ELSE [requests |-> <<request, request>>, error |-> "correction_service", ret |-> <<>>]

\* PythonAI.correct_text: [requests, error, ret], requests being the generate_content
\* calls made, error the exception raised and ret response.text
CorrectText(text, remote) ==
    LET request == [model |-> Model, contents |-> BuildCorrectionPrompt(text)]
    IN  IF remote.ok THEN [requests |-> <<request>>, error |-> "none", ret |-> remote.text]
        ELSE [requests |-> <<request>>, error |-> "correction_service", ret |-> <<>>]

\* ------------------------------------------------------------------------
\* Application (ai_application.py)
\* ------------------------------------------------------------------------

\* the names the output directory can hold, in sorted() order
OutOrder ==
    << <<"corrigido_", "texto_", "a", ".txt">>,
       <<"resumo_", "a", ".csv">>,
       <<"texto_", "a", ".csv">> >>

\* Application.get_csv_files
GetCsvFiles(fs) ==
    LET Listed(n) == /\ PathJoin(OutputDir, n) \in DOMAIN fs
                     /\ Lower(n[Len(n)]) = ".csv"
                     /\ n[1] # "resumo_"
    IN  SelectSeq(OutOrder, Listed)

\* Application.get_user_choice for one line typed: the file chosen, "back" for
\* None, or "invalid" when the loop asks again
ChooseCsv(csv_files, typed) ==
    LET matches == SelectSeq(csv_files, LAMBDA f : \E i \in 1..Len(f) : f[i] = typed[2])
    IN  IF typed[1] = "word" /\ typed[2] \in {"voltar", "back", "sair"}
        THEN [kind |-> "back", name |-> <<>>]
        ELSE IF typed[1] = "number" /\ 0 <= typed[2] - 1 /\ typed[2] - 1 < Len(csv_files)
        THEN [kind |-> "file", name |-> csv_files[typed[2]]]
        ELSE IF typed[1] = "name" /\ \E i \in 1..Len(csv_files) : csv_files[i] = typed[2]
        THEN [kind |-> "file", name |-> typed[2]]
        ELSE IF typed[1] = "word" /\ Len(matches) = 1
        THEN [kind |-> "file", name |-> matches[1]]
        ELSE [kind |-> "invalid", name |-> <<>>]

\* the attributes class CSVConverter defines
CSVConverterMethods ==
    {"__init__", "_ensure_output_dir", "convert_text_to_csv",
     "convert_structured_data_to_csv", "create_summary_csv"}

\* the text of a tabular file: its Conteudo cells, one per line
RECURSIVE JoinLF(_)
JoinLF(lines) ==
    IF lines = <<>> THEN <<>>
    ELSE IF Len(lines) = 1 THEN lines[1]
    ELSE lines[1] \o <<LF>> \o JoinLF(Tail(lines))

ReadCsvContent(fs, csv_path) ==
    IF csv_path \in DOMAIN fs /\ fs[csv_path].rows # <<>>
    THEN JoinLF(ColumnOf(fs[csv_path], "Conteudo"))
    ELSE <<>>

\* corrected_path.replace('.csv', '.txt') of "output/corrigido_" + csv_filename
CorrectedPath(csv_filename) ==
    LET corrected_filename == <<"corrigido_">> \o csv_filename
    IN  PathJoin(OutputDir,
                 [i \in 1..Len(corrected_filename) |->
                     IF corrected_filename[i] = ".csv" THEN ".txt" ELSE corrected_filename[i]])

TxtFile(text) == [kind |-> "txt", header |-> <<>>, rows |-> <<>>, text |-> text]

\* Application.correct_csv_text: [files, ret, console, text, error, raised, requests, reply]
CorrectCsvText(fs, csv_filename, remote, io) ==
    LET csv_path == PathJoin(OutputDir, csv_filename)
        text_content == ReadCsvContent(fs, csv_path)
        c == CorrectText(text_content, remote)
        out(f, ret, msgs, txt, e, reqs, reply) ==
            [files |-> f, ret |-> ret, console |-> <<"reading">> \o msgs, text |-> txt,
             error |-> e, raised |-> "none", requests |-> reqs, reply |-> reply]
    IN  IF "read_csv_content" \notin CSVConverterMethods
        THEN \* self.csv_converter.read_csv_content raises AttributeError
             out(fs, FALSE, <<"error_correcting">>, <<>>, "attribute_error", <<>>, <<>>)
        ELSE IF Strip(text_content) = <<>>
        THEN out(fs, FALSE, <<"csv_empty">>, text_content, "none", <<>>, <<>>)
        ELSE IF c.error # "none"
        THEN out(fs, FALSE, <<"original", "sending", "error_correcting">>, text_content,
                 c.error, c.requests, <<>>)
        ELSE IF io = "open_error"
        THEN out(fs, FALSE, <<"original", "sending", "corrected", "error_correcting">>,
                 text_content, "export_write", c.requests, c.ret)
        ELSE IF io = "write_error"
        THEN out(WriteFile(fs, CorrectedPath(csv_filename), TxtFile(<<>>)), FALSE,
                 <<"original", "sending", "corrected", "error_correcting">>,
                 text_content, "export_write", c.requests, c.ret)
        ELSE out(WriteFile(fs, CorrectedPath(csv_filename), TxtFile(c.ret)), TRUE,
                 <<"original", "sending", "corrected", "saved">>,
                 text_content, "none", c.requests, c.ret)

\* ------------------------------------------------------------------------
\* ImageTextExtractor (main.py): the menus
\* ------------------------------------------------------------------------

\* the image names in sorted() order
ImgOrder == << <<"a", ".jpg">>, <<"a", ".png">>, <<"notes", ".txt">> >>

\* ImageTextExtractor._get_available_images
GetAvailableImages(listing) ==
    LET Offered(n) == n \in listing /\ IsImage(n)
    IN  SelectSeq(ImgOrder, Offered)

\* ImageTextExtractor._get_user_choice for one line typed
ChooseImage(available, typed) ==
    IF typed[1] = "word" /\ typed[2] \in {"voltar", "back", "menu"}
    THEN [kind |-> "back", name |-> <<>>]
    ELSE IF typed[1] = "name" /\ \E i \in 1..Len(available) : available[i] = typed[2]
    THEN [kind |-> "image", name |-> typed[2]]
    ELSE IF typed[1] = "number" /\ 0 <= typed[2] - 1 /\ typed[2] - 1 < Len(available)
    THEN [kind |-> "image", name |-> available[typed[2]]]
    ELSE [kind |-> "invalid", name |-> <<>>]

\* run_ocr_mode from the top of its loop to the next input(): [pc, console]
RunOcrModeTop(listing) ==
    IF GetAvailableImages(listing) = <<>>
    THEN [pc |-> "ocr_noimg_enter", console |-> <<"no_images", "add_images">>]
    ELSE [pc |-> "ocr_choice", console |-> <<"image_list">>]

\* run_ai_correction without the test of the key
RunAiCorrectionNoKeyTest(key, app_, client_ok) ==
    IF ~client_ok
    THEN [pc |-> "ai_error_enter", console |-> <<"ai_app_error">>, app |-> app_,
          error |-> "client_init"]
    ELSE [pc |-> "ai_menu", console |-> <<"ai_banner">>,
          app |-> [built |-> TRUE, api_key |-> key], error |-> "none"]

\* run_ai_correction up to the next input(): [pc, console, app, error].  client_ok
\* tells whether Application(api_key=api_key) is built without an exception.
RunAiCorrection(key, app_, client_ok) ==
    IF key \in {"absent", ""}
    THEN [pc |-> "ai_nokey_enter", console |-> <<"config_error">>, app |-> app_,
          error |-> "config"]
    ELSE IF ~client_ok
    THEN [pc |-> "ai_error_enter", console |-> <<"ai_app_error">>, app |-> app_,
          error |-> "client_init"]
    ELSE [pc |-> "ai_menu", console |-> <<"ai_banner">>,
          app |-> [built |-> TRUE, api_key |-> key], error |-> "none"]

\* ------------------------------------------------------------------------
\* The interactive program: one action per input() the program waits in, which
\* runs the code from that input() to the next one
\* ------------------------------------------------------------------------

\* what is typed at a numbered menu; int() raises ValueError on "x"
MenuInputs == {"x", "0", "1", "2", "9"}
IsInt(typed) == typed \in {"0", "1", "2", "9"}

\* what is typed when an image, or a tabular file, is asked for
OcrInputs ==
    {<<"word", "voltar">>, <<"word", "zz">>, <<"number", 0>>, <<"number", 2>>}
        \cup {<<"name", n>> : n \in ImgFiles}
CsvInputs ==
    {<<"word", "voltar">>, <<"word", "zz">>, <<"word", "texto_">>,
     <<"number", 0>>, <<"number", 1>>, <<"name", <<"texto_", "a", ".csv">>>>}

ManualTexts == SeqsUpTo({"a", " "}, MaxManualLen)

Init ==
    /\ files = << >>
    /\ images = {}
    /\ api_key = "absent"
    /\ ProgramStart
    /\ call = NoCall

Step(pc_, console_, last_, app_, ai_log_, choice_, files_) ==
    /\ pc' = pc_
    /\ console' = console_
    /\ last' = last_
    /\ app' = app_
    /\ ai_log' = ai_log_
    /\ choice' = choice_
    /\ files' = files_
    /\ UNCHANGED <<images, api_key, call>>

\* main_menu: the option is read and dispatched
MainMenu ==
    /\ pc = "main_menu"
    /\ \E typed \in MenuInputs :
       \E client_ok \in (IF typed = "2" /\ api_key # "absent" THEN BOOLEAN ELSE {TRUE}) :
       \E ai \in {RunAiCorrection(api_key, app, client_ok)} :
       \E ocr \in {RunOcrModeTop(images)} :
          CASE ~IsInt(typed) ->
                 Step("main_menu", <<"invalid_input">>, NoLast, app, <<>>, typed, files)
            [] typed = "1" ->
                 Step(ocr.pc, ocr.console, NoLast, app, <<>>, typed, files)
            [] typed = "2" ->
                 Step(ai.pc, ai.console,
                      [NoLast EXCEPT !.op = "run_ai_correction", !.error = ai.error],
                      ai.app, <<>>, typed, files)
            [] typed = "0" ->
                 Step("exited", <<"bye", "thanks">>, NoLast, app, <<>>, typed, files)
            [] OTHER ->
                 Step("main_menu", <<"invalid_option">>, NoLast, app, <<>>, typed, files)

\* run_ocr_mode: an image is asked for and processed
OcrChoice ==
    /\ pc = "ocr_choice"
    /\ \E typed \in OcrInputs :
       \E chosen \in {ChooseImage(GetAvailableImages(images), typed)} :
          CASE chosen.kind = "back" ->
                 Step("main_menu", <<>>, NoLast, app, <<>>, "", files)
            [] chosen.kind = "invalid" ->
                 Step("ocr_choice", <<"image_not_found">>, NoLast, app, <<>>, "", files)
            [] chosen.kind = "image" ->
                 \E ocr \in OcrOutcomes :
                 \E text \in {ExtractText(ocr).ret} :
                 \E io1 \in (IF Strip(text) # <<>> THEN IoOutcomes ELSE {"ok"}) :
                 \E io2 \in (IF Strip(text) # <<>> /\ io1 = "ok" THEN IoOutcomes ELSE {"ok"}) :
                 \E stamps \in Readings(Len(NonBlankLines(text)) + 1) :
                 \E r \in {ProcessImage(files, OutputDir, chosen.name, ocr, stamps, io1, io2)} :
                 \E top \in {RunOcrModeTop(images)} :
                 \E l \in {[NoLast EXCEPT !.op = "process_image", !.arg = chosen.name,
                                          !.text = r.text, !.ret = r.ret, !.error = r.error]} :
                    IF r.raised # "none"
                    THEN Step("aborted", r.console \o <<"unexpected_error", "thanks">>,
                              l, app, <<>>, "", r.files)
                    ELSE IF r.ret
                    THEN Step("ocr_continue", r.console \o <<"ask_continue">>,
                              l, app, <<>>, "", r.files)
                    ELSE Step(top.pc, r.console \o <<"back_to_list">> \o top.console,
                              l, app, <<>>, "", r.files)

\* run_ocr_mode: another image, or back to the main menu
OcrContinue ==
    /\ pc = "ocr_continue"
    /\ \E typed \in {"s", "n"} :
       \E top \in {RunOcrModeTop(images)} :
          IF typed \in {"s", "sim", "y", "yes"}
          THEN Step(top.pc, top.console, NoLast, app, <<>>, "", files)
          ELSE Step("main_menu", <<>>, NoLast, app, <<>>, "", files)

\* "Pressione Enter para voltar ao menu principal..."
PressEnter ==
    /\ pc \in {"ocr_noimg_enter", "ai_nokey_enter", "ai_error_enter"}
    /\ Step("main_menu", <<>>, NoLast, app, <<>>, "", files)

\* Application.menu: the option is read and dispatched
AiMenu ==
    /\ pc = "ai_menu"
    /\ \E typed \in MenuInputs :
          CASE ~IsInt(typed) ->
                 Step("ai_menu", <<"invalid_input">>, NoLast, app, <<>>, typed, files)
            [] typed = "1" ->
                 IF GetCsvFiles(files) # <<>>
                 THEN Step("ai_file_choice", <<"csv_list">>, NoLast, app, <<>>, typed, files)
                 ELSE Step("ai_menu", <<"no_csv">>, NoLast, app, <<>>, typed, files)
            [] typed = "2" ->
                 Step("ai_manual_text", <<"ask_text">>, NoLast, app, <<>>, typed, files)
            [] typed = "0" ->
                 Step("main_menu", <<"back_to_main">>, NoLast, app, <<>>, typed, files)
            [] OTHER ->
                 Step("ai_menu", <<"invalid_option">>, NoLast, app, <<>>, typed, files)

\* Application.menu, option 1: a tabular file is asked for and corrected
AiFileChoice ==
    /\ pc = "ai_file_choice"
    /\ \E typed \in CsvInputs :
       \E chosen \in {ChooseCsv(GetCsvFiles(files), typed)} :
          CASE chosen.kind = "back" ->
                 Step("ai_menu", <<>>, NoLast, app, <<>>, "", files)
            [] chosen.kind = "invalid" ->
                 Step("ai_file_choice", <<"csv_not_found">>, NoLast, app, <<>>, "", files)
            [] chosen.kind = "file" ->
                 \E remote \in RemoteOutcomes :
                 \E io \in (IF remote.ok THEN IoOutcomes ELSE {"ok"}) :
                 \E r \in {CorrectCsvText(files, chosen.name, remote, io)} :
                    Step(IF r.raised # "none" THEN "ai_error_enter" ELSE "ai_menu",
                         r.console,
                         [NoLast EXCEPT !.op = "correct_csv_text", !.arg = chosen.name,
                                        !.text = r.text, !.ret = r.ret, !.error = r.error,
                                        !.reply = r.reply, !.remote = remote],
                         app, r.requests, "", r.files)

\* Application.menu, option 2: a text is typed and corrected
AiManualText ==
    /\ pc = "ai_manual_text"
    /\ \E manual_text \in ManualTexts :
          IF Strip(manual_text) # <<>>
          THEN \E remote \in RemoteOutcomes :
               \E c \in {CorrectText(manual_text, remote)} :
                  Step("ai_menu",
                       IF c.error = "none" THEN <<"corrected">> ELSE <<"error_correction">>,
                       [NoLast EXCEPT !.op = "manual_correction", !.text = manual_text,
                                      !.ret = (c.error = "none"), !.error = c.error,
                                      !.reply = c.ret, !.remote = remote],
                       app, c.requests, "", files)
          ELSE Step("ai_menu", <<"no_text_typed">>,
                    [NoLast EXCEPT !.op = "manual_correction", !.text = manual_text],
                    app, <<>>, "", files)

\* the user copies images into img/ while the program waits
PutImages ==
    /\ pc \notin {"exited", "aborted"}
    /\ images = {}
    /\ images' = ImgFiles
    /\ UNCHANGED <<files, api_key, progVars, call>>

\* the user writes API_KEY into .env while the program waits
SetCredential ==
    /\ pc \notin {"exited", "aborted"}
    /\ api_key = "absent"
    /\ api_key' = "k"
    /\ UNCHANGED <<files, images, progVars, call>>

Next ==
    \/ MainMenu
    \/ OcrChoice
    \/ OcrContinue
    \/ PressEnter
    \/ AiMenu
    \/ AiFileChoice
    \/ AiManualText
    \/ PutImages
    \/ SetCredential

Spec == Init /\ [][Next]_vars

\* ------------------------------------------------------------------------
\* Properties of the interactive program
\* ------------------------------------------------------------------------

Reported(message) == \E i \in 1..Len(console) : console[i] = message

\* the input() calls of the program
Prompts ==
    {"main_menu", "ocr_choice", "ocr_continue", "ocr_noimg_enter", "ai_nokey_enter",
     "ai_error_enter", "ai_menu", "ai_file_choice", "ai_manual_text"}

\* 'corrigido_' + the tabular file's name with its extension replaced by .txt
ExpectedCorrectedPath(csv_filename) ==
    PathJoin(OutputDir, <<"corrigido_">> \o Splitext(csv_filename)[1] \o <<".txt">>)

\* C4: correcting an existing tabular file with non-blank content, the service
\* answering R, succeeds and leaves the text file corrigido_<name>.txt holding
\* exactly R.
C4_CorrectionPersisted ==
    (/\ last.op = "correct_csv_text"
     /\ RowsAt(files, PathJoin(OutputDir, last.arg)) > 0
     /\ last.remote.ok)
    => /\ last.ret = TRUE
       /\ ExpectedCorrectedPath(last.arg) \in DOMAIN files
       /\ files[ExpectedCorrectedPath(last.arg)].kind = "txt"
       /\ files[ExpectedCorrectedPath(last.arg)].text = last.remote.text

\* C5: when the OCR result is empty or blank, process_image reports that no text
\* was found, returns False and leaves the output directory as it was.
C5_BlankOcrNoExport ==
    [][(/\ last'.op = "process_image"
        /\ last'.error = "none"
        /\ Strip(last'.text) = <<>>)
       => (/\ files' = files
           /\ last'.ret = FALSE
           /\ \E i \in 1..Len(console') : console'[i] = "no_text")]_vars

\* a blank OCR result met with files already in the output directory
C5_Witness ==
    /\ last.op = "process_image"
    /\ last.error = "none"
    /\ last.text = <<>>
    /\ Reported("no_text")
    /\ DOMAIN files # {}

\* C6: entering the correction workflow without API_KEY reports a configuration
\* error, builds no client and sends no request, and leads back to the main menu,
\* whose OCR option works whatever the credential.
C6_MissingCredential ==
    /\ [][(pc = "main_menu" /\ choice' = "2" /\ api_key = "absent")
          => (/\ pc' = "ai_nokey_enter"
              /\ console' = <<"config_error">>
              /\ app' = app
              /\ ai_log' = <<>>
              /\ files' = files)]_vars
    /\ [][(pc = "ai_nokey_enter" /\ pc' # pc) => pc' = "main_menu"]_vars
    /\ [][(pc = "main_menu" /\ choice' = "1")
          => pc' \in {"ocr_choice", "ocr_noimg_enter"}]_vars

\* the configuration error reported, no client ever built
C6_Witness ==
    /\ pc = "ai_nokey_enter"
    /\ console = <<"config_error">>
    /\ app = NoApp
    /\ ai_log = <<>>

\* C7: an error raised in a workflow is caught and reported and the program waits
\* for input again; the program never ends on an error, and the main menu loop
\* ends only on option 0.
C7_ErrorsCaught ==
    /\ [](pc # "aborted")
    /\ [](last.error # "none"
            => /\ pc \in Prompts
               /\ \E m \in {"error_processing", "error_correcting", "error_correction",
                            "config_error", "ai_app_error"} : Reported(m))
    /\ [][(pc \in {"ocr_noimg_enter", "ai_nokey_enter", "ai_error_enter"} /\ pc' # pc)
          => pc' = "main_menu"]_vars
    /\ [][pc' = "exited" => (pc = "main_menu" /\ choice' = "0") \/ pc = "exited"]_vars

\* a failed write caught by process_image, the image list shown again
C7_Witness ==
    /\ last.op = "process_image"
    /\ last.error = "export_write"
    /\ pc = "ocr_choice"
    /\ Reported("error_processing")

\* C8: the payload of every request is the fixed template with the caller's text,
\* whole and unchanged, in the one place the template leaves for it.
C8_PromptWrapsText ==
    \A i \in 1..Len(ai_log) :
        LET payload == ai_log[i].contents
            T == last.text
        IN  \E k \in 0..(Len(payload) - Len(T)) :
               /\ SubSeq(payload, k + 1, k + Len(T)) = T
               /\ SubSeq(payload, 1, k) = PromptHead
               /\ SubSeq(payload, k + Len(T) + 1, Len(payload)) = PromptTail

\* a request made for a text that starts with a blank
C8_Witness ==
    /\ Len(ai_log) = 1
    /\ last.text = <<" ", "a">>

\* C9: a correction call sends one request: it returns the model's text or fails,
\* and neither the client nor the workflow sends the request again.
C9_SingleRequest ==
    /\ Len(ai_log) <= 1
    /\ (last.op \in {"manual_correction", "correct_csv_text"}
          /\ last.error = "correction_service")
       => (Len(ai_log) = 1 /\ ~last.remote.ok /\ ~last.ret)
    /\ (last.op \in {"manual_correction", "correct_csv_text"}
          /\ last.error = "none" /\ ai_log # <<>>)
       => (last.remote.ok /\ last.reply = last.remote.text)

\* a request that failed
C9_Witness ==
    /\ last.op = "manual_correction"
    /\ last.error = "correction_service"
    /\ Len(ai_log) = 1

\* ------------------------------------------------------------------------
\* One text split into lines once: by convert_text_to_csv, or by
\* extract_data_structured when the engine yields it
\* ------------------------------------------------------------------------

\* OCRProcessor.extract_data_structured: [error, ret], ret the list of records
ExtractDataStructured(ocr) ==
    LET x == ExtractText(ocr)
        lines == NonBlankLines(x.ret)
    IN  IF x.error # "none" THEN [error |-> x.error, ret |-> <<>>]
        ELSE [error |-> "none",
              ret |-> [i \in 1..Len(lines) |->
                         << <<"linha", i>>,
                            <<"conteudo", lines[i]>>,
                            <<"palavras", Len(SplitWs(lines[i]))>>,
                            <<"caracteres", Len(lines[i])>> >>]]

\* extract_data_structured called for an image whose raw OCR output is the text
ExtractStructured ==
    /\ call.op = "none"
    /\ \E ocr \in {[kind |-> "text", raw |-> call.text],
                   [kind |-> "image_load", raw |-> <<>>],
                   [kind |-> "ocr_engine", raw |-> <<>>]} :
       \E r \in {ExtractDataStructured(ocr)} :
          call' = [call EXCEPT !.op = "extract_data_structured",
                               !.structured_data = r.ret, !.error = r.error]
    /\ UNCHANGED <<files, images, api_key, progVars>>

NextLines == ExportText \/ ExportSummary \/ ExtractStructured

SpecLines == InitExport /\ [][NextLines]_vars

\* the lines a call produced: the Conteudo cells of the file, the conteudo
\* fields of the records
LinesProduced ==
    IF call.op = "extract_data_structured"
    THEN [i \in 1..Len(call.structured_data) |-> DictGet(call.structured_data[i], "conteudo")]
    ELSE ColumnOf(files[TabularPath], "Conteudo")

LinesWereProduced ==
    \/ call.op \in {"convert_text_to_csv", "create_summary_csv"}
    \/ call.op = "extract_data_structured" /\ call.error = "none"

\* C11: the lines obtained from a text, joined with line breaks and split again
\* by the same rule, are the same lines.
C11_SplitIdempotent ==
    LinesWereProduced => NonBlankLines(JoinLF(LinesProduced)) = LinesProduced

\* two lines obtained from a text that starts with a blank line
C11_Witness ==
    /\ call.op = "extract_data_structured"
    /\ call.error = "none"
    /\ Len(LinesProduced) = 2
    /\ call.text[1] = " "
    /\ call.text[2] = LF

\* the k-th position that starts a non-blank line
KthStart(text, k) ==
    CHOOSE i \in 1..Len(text) :
        /\ StartsLine(text, i)
        /\ Cardinality({j \in 1..i : StartsLine(text, j)}) = k

\* the last non-blank position of the line position i is in
LineEnd(text, i) ==
    CHOOSE e \in i..Len(text) :
        /\ text[e] \notin Whitespace
        /\ \A j \in i..e : text[j] # LF
        /\ \A f \in (e + 1)..Len(text) :
              (\A j \in i..f : text[j] # LF) => text[f] \in Whitespace

\* the k-th non-blank line of the text, without the blanks around it
LineAt(text, k) == SubSeq(text, KthStart(text, k), LineEnd(text, KthStart(text, k)))

\* the number of positions of s that start a run of non-blanks
Tokens(s) ==
    Cardinality({j \in 1..Len(s) : s[j] \notin Whitespace /\ (j = 1 \/ s[j - 1] \in Whitespace)})

\* row k as <<index, content, words, characters>>
RowsProduced ==
    IF call.op = "extract_data_structured"
    THEN [k \in 1..Len(call.structured_data) |->
            <<DictGet(call.structured_data[k], "linha"),
              DictGet(call.structured_data[k], "conteudo"),
              DictGet(call.structured_data[k], "palavras"),
              DictGet(call.structured_data[k], "caracteres")>>]
    ELSE [k \in 1..Len(files[TabularPath].rows) |->
            <<ColumnOf(files[TabularPath], "Linha")[k],
              ColumnOf(files[TabularPath], "Conteudo")[k],
              ColumnOf(files[TabularPath], "Palavras")[k],
              ColumnOf(files[TabularPath], "Caracteres")[k]>>]

\* C12: row k has index k and holds the k-th non-blank line of the text, trimmed
\* and not empty, with its number of whitespace-delimited tokens and its length.
C12_RowsFollowLines ==
    LinesWereProduced =>
        /\ Len(RowsProduced) = NumNonBlankLines(call.text)
        /\ \A k \in 1..Len(RowsProduced) :
              LET row == RowsProduced[k]
              IN  /\ row[1] = k
                  /\ row[2] = LineAt(call.text, k)
                  /\ row[2] # <<>>
                  /\ row[2][1] \notin Whitespace
                  /\ row[2][Len(row[2])] \notin Whitespace
                  /\ row[3] = Tokens(row[2])
                  /\ row[4] = Len(row[2])

\* a file of two rows from a text that has blanks to trim and a blank line
C12_Witness ==
    /\ call.op = "convert_text_to_csv"
    /\ Len(RowsProduced) = 2
    /\ RowsProduced[2][1] = 2
    /\ call.text[1] = " "
    /\ Len(SplitLF(call.text)) = 3

\* C13: for a text the OCR workflow exports (trimmed, not blank), the summary's
\* Total_Linhas is the number of data rows of the tabular file and its
\* Total_Caracteres is the sum of Caracteres over those rows.
C13_SummaryAggregates ==
    (/\ call.op = "create_summary_csv"
     /\ call.text # <<>>
     /\ Strip(call.text) = call.text)
    => /\ ColumnOf(files[SummaryPath], "Total_Linhas")[1] = Len(files[TabularPath].rows)
       /\ ColumnOf(files[SummaryPath], "Total_Caracteres")[1]
             = SumSeq(ColumnOf(files[TabularPath], "Caracteres"))

\* ------------------------------------------------------------------------
\* OCRProcessor.__init__: the engine binary is looked for, then images are
\* processed with whatever command was left in pytesseract
\* ------------------------------------------------------------------------

\* common_paths of _setup_tesseract_path; %s is os.getenv('USERNAME', '')
CommonPaths ==
    <<"C:\\Program Files\\Tesseract-OCR\\tesseract.exe",
      "C:\\Program Files (x86)\\Tesseract-OCR\\tesseract.exe",
      "C:\\Users\\%s\\AppData\\Local\\Tesseract-OCR\\tesseract.exe",
      "C:\\tesseract\\tesseract.exe">>

\* pytesseract.pytesseract.tesseract_cmd before anything is assigned to it: a
\* bare command name, looked up on the PATH when the engine is run
DefaultCmd == "tesseract"

\* the tesseract_path a caller passes: None, a path of its own, or (as
\* ImageTextExtractor.__init__ does) the first of the common paths
None == ""
CustomPaths == {None, "D:\\ocr\\tesseract.exe", CommonPaths[1]}

\* everything the engine may be run as
EngineCommands ==
    {CommonPaths[i] : i \in 1..Len(CommonPaths)} \cup (CustomPaths \ {None}) \cup {DefaultCmd}

\* _setup_tesseract_path with common_paths.append(custom_path): the override last
SetupTesseractPathCustomLast(custom_path, exists, tesseract_cmd) ==
    LET common_paths == IF custom_path # None THEN CommonPaths \o <<custom_path>>
                        ELSE CommonPaths
        first == FirstIn(common_paths, exists, 1)
    IN  IF first <= Len(common_paths)
        THEN [tesseract_cmd |-> common_paths[first], console |-> <<"tesseract_found">>,
              raised |-> "none"]
        ELSE [tesseract_cmd |-> tesseract_cmd, console |-> <<"tesseract_not_found">>,
              raised |-> "none"]

\* OCRProcessor._setup_tesseract_path: [tesseract_cmd, console, raised].  exists is
\* the set of paths os.path.exists answers True for.
SetupTesseractPath(custom_path, exists, tesseract_cmd) ==
    LET common_paths == IF custom_path # None THEN <<custom_path>> \o CommonPaths
                        ELSE CommonPaths
        first == FirstIn(common_paths, exists, 1)
    IN  IF first <= Len(common_paths)
        THEN [tesseract_cmd |-> common_paths[first], console |-> <<"tesseract_found">>,
              raised |-> "none"]
        ELSE [tesseract_cmd |-> tesseract_cmd, console |-> <<"tesseract_not_found">>,
              raised |-> "none"]

\* what preprocess_image and image_to_string do when the engine is run as
\* tesseract_cmd: the image may not load; a command that resolves yields a text
\* or fails; one that does not resolve fails
EngineOutcomes(tesseract_cmd, exists) ==
    IF tesseract_cmd \in exists THEN OcrOutcomes
    ELSE {o \in OcrOutcomes : o.kind # "text"}

\* the image processed
EngineImage == <<"a", ".png">>

NoProcessor ==
    [op |-> "none", custom_path |-> None, exists |-> {}, tesseract_cmd |-> DefaultCmd,
     console |-> <<>>, raised |-> "none", attempts |-> 0]

InitEngine ==
    /\ files = << >>
    /\ images = ImgFiles
    /\ api_key = "absent"
    /\ ProgramStart
    /\ \E custom_path \in CustomPaths, exists \in SUBSET EngineCommands :
          call = [NoProcessor EXCEPT !.custom_path = custom_path, !.exists = exists]

\* OCRProcessor(tesseract_path)
ConstructOCRProcessor ==
    /\ call.op = "none"
    /\ \E r \in {SetupTesseractPath(call.custom_path, call.exists, call.tesseract_cmd)} :
          call' = [call EXCEPT !.op = "OCRProcessor", !.tesseract_cmd = r.tesseract_cmd,
                               !.console = r.console, !.raised = r.raised]
    /\ UNCHANGED <<files, images, api_key, progVars>>

\* process_image(EngineImage) on the processor constructed
EngineProcessImage ==
    /\ call.op \in {"OCRProcessor", "process_image"}
    /\ call.raised = "none"
    /\ \E ocr \in EngineOutcomes(call.tesseract_cmd, call.exists) :
       \E text \in {ExtractText(ocr).ret} :
       \E stamps \in Readings(Len(NonBlankLines(text)) + 1) :
       \E r \in {ProcessImage(files, OutputDir, EngineImage, ocr, stamps, "ok", "ok")} :
          /\ files' = r.files
          /\ console' = r.console
          /\ last' = [NoLast EXCEPT !.op = "process_image", !.arg = EngineImage,
                                    !.text = r.text, !.ret = r.ret, !.error = r.error]
          /\ call' = [call EXCEPT !.op = "process_image",
                                  !.attempts = IF @ < 2 THEN @ + 1 ELSE @]
    /\ UNCHANGED <<images, api_key, pc, app, ai_log, choice>>

NextEngine == ConstructOCRProcessor \/ EngineProcessImage

SpecEngine == InitEngine /\ [][NextEngine]_vars

\* the paths the constructor looks at, and whether it was given an override
Constructed == call.op \in {"OCRProcessor", "process_image"}
ListedPaths ==
    {CommonPaths[i] : i \in 1..Len(CommonPaths)} \cup ({call.custom_path} \ {None})

\* the path that is to be pinned: the override when it exists, else the
\* first of the fixed paths that exists
PinnedAsClaimed(cmd) ==
    /\ cmd \in call.exists
    /\ (call.custom_path # None /\ call.custom_path \in call.exists) => cmd = call.custom_path
    /\ ~(call.custom_path # None /\ call.custom_path \in call.exists) =>
          \E i \in 1..Len(CommonPaths) :
             /\ cmd = CommonPaths[i]
             /\ \A j \in 1..(i - 1) : CommonPaths[j] \notin call.exists

\* the construction never fails and pins the first existing path, override first
DiscoveryOrdered ==
    Constructed =>
        /\ call.raised = "none"
        /\ (ListedPaths \cap call.exists # {}) => PinnedAsClaimed(call.tesseract_cmd)

\* an extraction attempt fails inside process_image: reported, False, no export
AttemptFailsCaught ==
    /\ last'.op = "process_image"
    /\ last'.error # "none"
    /\ last'.ret = FALSE
    /\ \E i \in 1..Len(console') : console'[i] = "error_processing"
    /\ files' = files

\* C14 as stated: construction never fails, the override is checked first and
\* the first existing path is pinned; when none of the paths exists, extraction
\* fails, on the attempt, with an error process_image catches without export.
C14_LazyOrderedDiscovery ==
    /\ []DiscoveryOrdered
    /\ [][(call'.op = "process_image" /\ call'.attempts # call.attempts
             /\ ListedPaths \cap call.exists = {})
          => AttemptFailsCaught]_vars

\* C14 amended: when none of the paths exists the library's default command is
\* left in effect, and extraction fails as described when that command does not
\* resolve either.
C14_LazyOrderedDiscoveryDefaultCmd ==
    /\ []DiscoveryOrdered
    /\ [](Constructed /\ ListedPaths \cap call.exists = {} => call.tesseract_cmd = DefaultCmd)
    /\ [][(call'.op = "process_image" /\ call'.attempts # call.attempts
             /\ (ListedPaths \cup {DefaultCmd}) \cap call.exists = {})
          => AttemptFailsCaught]_vars

\* no path and no default command: the first attempt failed on the engine
C14_Witness ==
    /\ call.op = "process_image"
    /\ call.attempts = 1
    /\ call.custom_path # None
    /\ call.exists = {}
    /\ call.raised = "none"
    /\ last.error = "ocr_engine"
    /\ files = << >>

\* ------------------------------------------------------------------------
\* The files of the output directory after OCR workflow runs
\* ------------------------------------------------------------------------

\* the paths of the output directory named texto_<base>.csv
TabularFiles == {p \in DOMAIN files : p[1] = OutputDir /\ p[2][1] = "texto_"}

\* where the summary of the tabular file at path p is looked for
SummaryOf(p) ==
    PathJoin(OutputDir, <<"resumo_">> \o SubSeq(p[2], 2, Len(p[2]) - 1) \o <<".csv">>)

\* C15: whatever OCR workflow runs came before, failed ones included, every
\* tabular file has its summary file: the summary names the tabular file, its
\* image is the image of the tabular rows, and its totals are those of the rows.
C15_SummaryForEveryTabular ==
    \A p \in TabularFiles :
        /\ SummaryOf(p) \in DOMAIN files
        /\ files[SummaryOf(p)].kind = "csv"
        /\ files[p].kind = "csv"
        /\ ColumnOf(files[SummaryOf(p)], "Arquivo_CSV_Gerado")[1] = p[2]
        /\ \A k \in 1..Len(files[p].rows) :
              ColumnOf(files[p], "Imagem_Origem")[k] = ColumnOf(files[SummaryOf(p)], "Imagem")[1]
        /\ ColumnOf(files[SummaryOf(p)], "Total_Linhas")[1] = Len(files[p].rows)
        /\ ColumnOf(files[SummaryOf(p)], "Total_Palavras")[1]
              = SumSeq(ColumnOf(files[p], "Palavras"))
        /\ ColumnOf(files[SummaryOf(p)], "Total_Caracteres")[1]
              = SumSeq(ColumnOf(files[p], "Caracteres"))

\* ------------------------------------------------------------------------
\* OCR workflow runs over a directory of several images
\* ------------------------------------------------------------------------

\* what os.listdir("img") returns: images of two stems, each under two
\* extensions, and a file that is no image
RunListing ==
    {<<"a", ".png">>, <<"a", ".jpg">>, <<"b", ".png">>, <<"b", ".PNG">>, <<"notes", ".txt">>}

InitRuns ==
    /\ files = << >>
    /\ images = RunListing
    /\ api_key = "absent"
    /\ ProgramStart
    /\ call = NoCall

\* process_image on one of the images _get_available_images offers
ProcessOffered ==
    /\ \E image_name \in {n \in images : IsImage(n)} :
       \E ocr \in OcrOutcomes :
       \E text \in {ExtractText(ocr).ret} :
       \E stamps \in Readings(Len(NonBlankLines(text)) + 1) :
       \E r \in {ProcessImage(files, OutputDir, image_name, ocr, stamps, "ok", "ok")} :
          /\ files' = r.files
          /\ console' = r.console
          /\ last' = [NoLast EXCEPT !.op = "process_image", !.arg = image_name,
                                    !.text = r.text, !.ret = r.ret, !.error = r.error]
    /\ UNCHANGED <<images, api_key, pc, app, ai_log, choice, call>>

NextRuns == ProcessOffered

SpecRuns == InitRuns /\ [][NextRuns]_vars

\* the image a generated file says it was made from
OwnerOf(file) ==
    IF \E j \in 1..Len(file.header) : file.header[j] = "Imagem"
    THEN ColumnOf(file, "Imagem")[1]
    ELSE ColumnOf(file, "Imagem_Origem")[1]

\* the two paths a run for the image writes
OutputPaths(image_name) ==
    {PathJoin(OutputDir, CsvName(image_name)), PathJoin(OutputDir, SummaryName(image_name))}

Offered == {n \in images : IsImage(n)}

\* the name without its extension
Stem(image_name) == SubSeq(image_name, 1, Len(image_name) - 1)

\* C16 as stated: a run writes to paths no other offered image is written to,
\* and a file a run replaces was made from the same image.
C16_ImagesNeverShareFiles ==
    /\ []((last.op = "process_image" /\ last.ret)
            => \A other \in Offered \ {last.arg} :
                  OutputPaths(other) \cap OutputPaths(last.arg) = {})
    /\ [][\A p \in DOMAIN files :
             files'[p] # files[p] => OwnerOf(files[p]) = last'.arg]_vars

\* C16 amended: images whose names differ before the extension never share
\* files; a file a run replaces was made from an image of the same stem.
C16_StemsNeverShareFiles ==
    /\ []((last.op = "process_image" /\ last.ret)
            => /\ OutputPaths(last.arg) \subseteq DOMAIN files
               /\ \A other \in Offered :
                     Stem(other) # Stem(last.arg)
                        => OutputPaths(other) \cap OutputPaths(last.arg) = {})
    /\ [][\A p \in DOMAIN files :
             files'[p] # files[p] => Stem(OwnerOf(files[p])) = Stem(last'.arg)]_vars

\* b.PNG processed after an image of stem a: four files, those of a untouched
C16_Witness ==
    /\ last.op = "process_image"
    /\ last.ret
    /\ last.arg = <<"b", ".PNG">>
    /\ Cardinality(DOMAIN files) = 4
    /\ \A p \in OutputPaths(<<"a", ".png">>) : Stem(OwnerOf(files[p])) = <<"a">>
    /\ \A p \in OutputPaths(last.arg) : OwnerOf(files[p]) = last.arg

====
